---- MODULE Spec2Model ----
(***************************************************************************)
(* Model of school-timetable.py: build_and_solve builds a CP-SAT model     *)
(* over boolean variables keyed (group, subject.id, teacher.id, day, hour) *)
(* and asks the solver for a valuation; print_timetables turns a solved    *)
(* valuation into one grid per group.                                      *)
(*                                                                         *)
(* A CP-SAT boolean variable is identified by its key; a valuation is a    *)
(* function from the keys of `assignments` to {0,1}.  The solver is        *)
(* modelled as a complete search: it returns any valuation satisfying all  *)
(* registered constraints, or INFEASIBLE when there is none (no time limit *)
(* is set on the solver, line 133).                                        *)
(***************************************************************************)
EXTENDS Integers, Sequences, FiniteSets

VARIABLES
    num_days,      \* build_and_solve parameter
    num_hours,     \* build_and_solve parameter
    all_groups,    \* sequence of group names, each a sequence of characters
    all_subjects,  \* sequence of Subject records
    all_teachers,  \* sequence of Teacher records
    assignments,   \* key set of the assignments dict
    val,           \* solver.Value over assignments
    status,        \* solver.StatusName()
    grid,          \* rows built by print_timetables, keyed <<group, h, d>>
    message,       \* text printed instead of the grids
    y_vars,        \* aggregated y_h variables of one (group, subject, day)
    starts,        \* start_h variables of one (group, subject, day)
    pc

vars == <<num_days, num_hours, all_groups, all_subjects, all_teachers,
          assignments, val, status, grid, message, y_vars, starts, pc>>

-----------------------------------------------------------------------------
(* Bounds of the explored inputs *)

MaxDays == 2
MaxHours == 3
MaxWeekly == 2
MaxPerDay == 2
MaxLoad == 2
MaxVars == 6
MaxEncHours == 5

(* Dataclass defaults *)
DefaultWeeklyHours == 5
DefaultMaxHoursPerDay == 1
DefaultMaxHoursWeek == 20

-----------------------------------------------------------------------------
(* Domain entities *)

Range(seq) == {seq[i] : i \in 1..Len(seq)}

Subject(id, name, course, weekly_hours, max_hours_per_day) ==
    [id |-> id, name |-> name, course |-> course,
     weekly_hours |-> weekly_hours, max_hours_per_day |-> max_hours_per_day]

Teacher(id, name, max_hours_week, subjects) ==
    [id |-> id, name |-> name, max_hours_week |-> max_hours_week,
     subjects |-> subjects]

\* group.split('-')[0]: the characters before the first '-', or the whole
\* name when it has none.
Course(group) ==
    LET dashes == {i \in 1..Len(group) : group[i] = "-"}
    IN  IF dashes = {} THEN group
        ELSE SubSeq(group, 1, (CHOOSE i \in dashes : \A j \in dashes : i <= j) - 1)

Days == 0..(num_days - 1)
Hours == 0..(num_hours - 1)

-----------------------------------------------------------------------------
(* Inputs: the fixture of the script, with its parameters varied *)

GroupLists == { <<<<"1", "-", "A">>>>,
                <<<<"1", "-", "A">>, <<"1", "-", "B">>>> }

Courses == { <<"1">>, <<"2">> }

MathChoices(W, P) == { Subject("math1", "Maths", <<"1">>, w, p) : w \in W, p \in P }
\* eng1 keeps the default max_hours_per_day; its course and hours vary.
EngChoices(W) ==
    { Subject("eng1", "English", c, w, DefaultMaxHoursPerDay) : c \in Courses, w \in W }

SubjectLists(W, P) ==
    { <<m>> : m \in MathChoices(W, P) }
      \cup { <<m, e>> : m \in MathChoices(W, P), e \in EngChoices(W) }

\* John's weekly cap varies; Jane keeps the cap of the script (the default).
JohnChoices(subs, L) == { Teacher(1, "John", l, c) : l \in L, c \in SUBSET Range(subs) }
JaneChoices(subs) == { Teacher(2, "Jane", DefaultMaxHoursWeek, c) : c \in SUBSET Range(subs) }

TeacherLists(subs, L) ==
    { <<a>> : a \in JohnChoices(subs, L) }
      \cup { <<a, b>> : a \in JohnChoices(subs, L), b \in JaneChoices(subs) }

-----------------------------------------------------------------------------
(* Variable index, lines 39-50 *)

VariableIndex(nd, nh, groups, subjects, teachers) ==
    UNION { UNION { UNION {
        { <<group, subject.id, teacher.id, d, h>> :
              d \in 0..(nd - 1), h \in 0..(nh - 1) } :
          teacher \in {t \in Range(teachers) : subject \in t.subjects} } :
          subject \in {s \in Range(subjects) : s.course = Course(group)} } :
          group \in Range(groups) }

\* sum(assignments[key] for key in assignments if ...) under valuation v,
\* for the keys in K: every variable is 0 or 1.
SumVars(v, K) == Cardinality({key \in K : v[key] = 1})

-----------------------------------------------------------------------------
(* Constraint families, lines 52-130, as predicates on a valuation v of the *)
(* keys of `assignments`                                                    *)

\* Variant: the quota as an upper bound instead of an equality.
WeeklyQuota_at_most(v) ==
    \A group \in Range(all_groups) : \A subject \in Range(all_subjects) :
        subject.course = Course(group) =>
            SumVars(v, {key \in assignments :
                            key[1] = group /\ key[2] = subject.id})
                <= subject.weekly_hours

\* Variant: no quota for a pair that has no variable.
WeeklyQuota_skip_empty(v) ==
    \A group \in Range(all_groups) : \A subject \in Range(all_subjects) :
        subject.course = Course(group) =>
            LET keys == {key \in assignments :
                             key[1] = group /\ key[2] = subject.id}
            IN  keys # {} => SumVars(v, keys) = subject.weekly_hours

\* Each subject must be taught the specified weekly hours (lines 52-57).
WeeklyQuota(v) ==
    \A group \in Range(all_groups) : \A subject \in Range(all_subjects) :
        subject.course = Course(group) =>
            SumVars(v, {key \in assignments :
                            key[1] = group /\ key[2] = subject.id})
                = subject.weekly_hours

\* Variant: the teacher's variables are also filtered by group.
TeacherExclusivity_per_group(v) ==
    \A teacher \in Range(all_teachers) : \A group \in Range(all_groups) :
        \A d \in Days : \A h \in Hours :
            SumVars(v, {key \in assignments :
                            /\ key[1] = group /\ key[3] = teacher.id
                            /\ key[4] = d /\ key[5] = h}) <= 1

\* A teacher cannot teach two classes at the same time (lines 59-63).
TeacherExclusivity(v) ==
    \A teacher \in Range(all_teachers) : \A d \in Days : \A h \in Hours :
        SumVars(v, {key \in assignments :
                        key[3] = teacher.id /\ key[4] = d /\ key[5] = h}) <= 1

\* Variant: the weekly cap is applied to each group separately.
TeacherWorkload_per_group(v) ==
    \A teacher \in Range(all_teachers) : \A group \in Range(all_groups) :
        SumVars(v, {key \in assignments :
                        key[1] = group /\ key[3] = teacher.id})
            <= teacher.max_hours_week

\* Teachers cannot exceed their maximum assigned weekly hours (lines 65-69).
TeacherWorkload(v) ==
    \A teacher \in Range(all_teachers) :
        SumVars(v, {key \in assignments : key[3] = teacher.id})
            <= teacher.max_hours_week

\* Maximum number of hours per day (lines 71-80): one constraint for each
\* group, subject of its course, teacher certified for it, and day.
DailyCap(v) ==
    \A group \in Range(all_groups) : \A subject \in Range(all_subjects) :
        subject.course = Course(group) =>
            \A teacher \in Range(all_teachers) :
                subject \in teacher.subjects =>
                    \A d \in Days :
                        SumVars(v, {key \in assignments :
                                        /\ key[1] = group
                                        /\ key[2] = subject.id
                                        /\ key[3] = teacher.id
                                        /\ key[4] = d})
                            <= subject.max_hours_per_day

\* Variant: the group's variables are also filtered by subject.
GroupSlot_per_subject(v) ==
    \A group \in Range(all_groups) : \A subject \in Range(all_subjects) :
        \A d \in Days : \A h \in Hours :
            SumVars(v, {k \in assignments :
                            /\ k[1] = group /\ k[2] = subject.id
                            /\ k[4] = d /\ k[5] = h}) <= 1

\* Variant: the bound on a group's slot is 2.
GroupSlot_at_most_two(v) ==
    \A group \in Range(all_groups) : \A d \in Days : \A h \in Hours :
        SumVars(v, {k \in assignments :
                        k[1] = group /\ k[4] = d /\ k[5] = h}) <= 2

\* A group cannot have more than one subject in the same hour (lines 82-86).
GroupSlot(v) ==
    \A group \in Range(all_groups) : \A d \in Days : \A h \in Hours :
        SumVars(v, {k \in assignments :
                        k[1] = group /\ k[4] = d /\ k[5] = h}) <= 1

\* Variant: the inequality s <= 1 - y_{h-1} is left out.
StartLinks_no_previous(nh, y, s) ==
    \A h \in 0..(nh - 1) :
        IF h = 0
        THEN s[h] = y[0]
        ELSE /\ s[h] >= y[h] - y[h - 1]
             /\ s[h] <= y[h]

\* Lines 112-127: start_0 == y_0 and, for h > 0, the three inequalities
\* linearising s == y_h & not y_{h-1}.  y and s map 0..nh-1 to {0,1}.
StartLinks(nh, y, s) ==
    \A h \in 0..(nh - 1) :
        IF h = 0
        THEN s[h] = y[0]
        ELSE /\ s[h] >= y[h] - y[h - 1]
             /\ s[h] <= y[h]
             /\ s[h] <= 1 - y[h - 1]

RECURSIVE SumTo(_, _)
\* sum(starts): the sum of s[0..n-1]
SumTo(s, n) == IF n = 0 THEN 0 ELSE s[n - 1] + SumTo(s, n - 1)

\* Variant: two block starts per day are allowed.
OneBlockStart_two(nh, s) == SumTo(s, nh) <= 2

\* Line 130: at most one block start per day.
OneBlockStart(nh, s) == SumTo(s, nh) <= 1

\* Lines 96-110: y_h == sum of the assignment variables of (group, subject,
\* d, h) over teachers, or y_h == 0 when there is none.  y_h is a boolean
\* variable, so the link has a solution only when the sum is 0 or 1.
YLinks(v, group, subject, d, y) ==
    \A h \in Hours :
        LET assign_vars == {key \in assignments :
                                /\ key[1] = group /\ key[2] = subject.id
                                /\ key[4] = d /\ key[5] = h}
        IN  IF assign_vars # {}
            THEN SumVars(v, assign_vars) = y[h]
            ELSE y[h] = 0

\* Consecutive hours (lines 88-130): for each group, subject of its course
\* and day the solver must find values for the y and start variables.
Contiguity(v) ==
    \A group \in Range(all_groups) : \A subject \in Range(all_subjects) :
        subject.course = Course(group) =>
            \A d \in Days :
                \E y \in [Hours -> {0, 1}] :
                    /\ YLinks(v, group, subject, d, y)
                    /\ \E s \in [Hours -> {0, 1}] :
                           /\ StartLinks(num_hours, y, s)
                           /\ OneBlockStart(num_hours, s)

\* The model handed to the solver: all constraint families.
Model(v) ==
    /\ WeeklyQuota(v)
    /\ TeacherExclusivity(v)
    /\ TeacherWorkload(v)
    /\ DailyCap(v)
    /\ GroupSlot(v)
    /\ Contiguity(v)

Valuations == [assignments -> {0, 1}]

-----------------------------------------------------------------------------
(* The script: build_and_solve, then print_timetables *)

Accepted == status \in {"FEASIBLE", "OPTIMAL"}

Init ==
    /\ num_days \in 1..MaxDays
    /\ num_hours \in 1..MaxHours
    /\ all_groups \in GroupLists
    /\ all_subjects \in SubjectLists(1..MaxWeekly, 1..MaxPerDay)
    /\ all_teachers \in TeacherLists(all_subjects, (1..MaxLoad) \cup {DefaultMaxHoursWeek})
    /\ Cardinality(VariableIndex(num_days, num_hours, all_groups,
                                 all_subjects, all_teachers)) <= MaxVars
    /\ assignments = {}
    /\ val = <<>>
    /\ status = "UNKNOWN"
    /\ grid = <<>>
    /\ message = ""
    /\ y_vars = <<>>
    /\ starts = <<>>
    /\ pc = "main"

\* Lines 36-135.  The assignments dict is filled, the constraints are added
\* and the solver is run once.
build_and_solve ==
    /\ pc = "main"
    /\ UNCHANGED <<num_days, num_hours, all_groups, all_subjects, all_teachers,
                   grid, message, y_vars, starts>>
    /\ assignments' = VariableIndex(num_days, num_hours, all_groups,
                                    all_subjects, all_teachers)
    /\ LET solutions == {v \in Valuations' : Model(v)'}
       IN  IF solutions # {}
           THEN /\ val' \in solutions
                /\ status' \in {"OPTIMAL", "FEASIBLE"}
           ELSE /\ val' = <<>>
                /\ status' = "INFEASIBLE"
    /\ pc' = "solved"

\* f"{subject.name} ({teacher.name})" as the sequence of its pieces; the
\* empty string is <<>>.
CellText(subject, teacher) == <<subject.name, " (", teacher.name, ")">>

\* The "-" shown for an empty cell (line 176).
EmptyCell == <<"-">>

\* Variant: day and hour are swapped in the key that is looked up.
Cell_swapped(group, h, d) ==
    LET course == Course(group)
        hits == { p \in (1..Len(all_subjects)) \X (1..Len(all_teachers)) :
                    LET subject == all_subjects[p[1]]
                        teacher == all_teachers[p[2]]
                        key == <<group, subject.id, teacher.id, h, d>>
                    IN  /\ subject.course = course
                        /\ subject \in teacher.subjects
                        /\ key \in assignments
                        /\ val[key] = 1 }
        cell_content ==
            IF hits = {}
            THEN <<>>
            ELSE LET last == CHOOSE p \in hits : \A q \in hits :
                                 \/ q[1] < p[1]
                                 \/ (q[1] = p[1] /\ q[2] <= p[2])
                 IN  CellText(all_subjects[last[1]], all_teachers[last[2]])
    IN  IF cell_content # <<>> THEN cell_content ELSE EmptyCell

\* Lines 168-176: the content of cell (h, d) of a group's rows.  The loops
\* run over subjects then teachers in list order and every hit overwrites
\* cell_content, so the last hit stays; "-" when cell_content is empty.
Cell(group, h, d) ==
    LET course == Course(group)
        hits == { p \in (1..Len(all_subjects)) \X (1..Len(all_teachers)) :
                    LET subject == all_subjects[p[1]]
                        teacher == all_teachers[p[2]]
                        key == <<group, subject.id, teacher.id, d, h>>
                    IN  /\ subject.course = course
                        /\ subject \in teacher.subjects
                        /\ key \in assignments
                        /\ val[key] = 1 }
        cell_content ==
            IF hits = {}
            THEN <<>>
            ELSE LET last == CHOOSE p \in hits : \A q \in hits :
                                 \/ q[1] < p[1]
                                 \/ (q[1] = p[1] /\ q[2] <= p[2])
                 IN  CellText(all_subjects[last[1]], all_teachers[last[2]])
    IN  IF cell_content # <<>> THEN cell_content ELSE EmptyCell

\* Lines 138-181, called as in the script with the days and hours the model
\* was built with.
print_timetables ==
    /\ pc = "solved"
    /\ IF Accepted
       THEN /\ grid' = [c \in Range(all_groups) \X Hours \X Days |->
                            Cell(c[1], c[2], c[3])]
            /\ message' = ""
       ELSE /\ grid' = <<>>
            /\ message' = "No feasible solution found."
    /\ pc' = "printed"
    /\ UNCHANGED <<num_days, num_hours, all_groups, all_subjects, all_teachers,
                   assignments, val, status, y_vars, starts>>

Next == build_and_solve \/ print_timetables

Spec == Init /\ [][Next]_vars

-----------------------------------------------------------------------------
(* The block-start encoding on its own: lines 112-130 applied to an         *)
(* arbitrary 0/1 vector y_vars of one (group, subject, day)                 *)

InitEnc ==
    /\ num_days = 1
    /\ num_hours \in 1..MaxEncHours
    /\ all_groups = <<>>
    /\ all_subjects = <<>>
    /\ all_teachers = <<>>
    /\ assignments = {}
    /\ val = <<>>
    /\ status = "UNKNOWN"
    /\ grid = <<>>
    /\ message = ""
    /\ y_vars \in [Hours -> {0, 1}]
    /\ starts = <<>>
    /\ pc = "y"

\* Lines 112-127: the solver gives the start variables values that satisfy
\* the links to y.
define_starts ==
    /\ pc = "y"
    /\ \E s \in [Hours -> {0, 1}] :
           /\ StartLinks(num_hours, y_vars, s)
           /\ starts' = s
    /\ pc' = "starts"
    /\ UNCHANGED <<num_days, num_hours, all_groups, all_subjects, all_teachers,
                   assignments, val, status, grid, message, y_vars>>

\* Line 130: sum(starts) <= 1 is added; the vector is kept or rejected.
limit_starts ==
    /\ pc = "starts"
    /\ pc' = IF OneBlockStart(num_hours, starts) THEN "kept" ELSE "rejected"
    /\ UNCHANGED <<num_days, num_hours, all_groups, all_subjects, all_teachers,
                   assignments, val, status, grid, message, y_vars, starts>>

NextEnc == define_starts \/ limit_starts

SpecEnc == InitEnc /\ [][NextEnc]_vars

-----------------------------------------------------------------------------
(* Single constraint families on an arbitrary valuation of the variable     *)
(* index: the inputs keep the dataclass defaults, which these families do   *)
(* not read                                                                 *)

InitFam ==
    /\ num_days \in 1..MaxDays
    /\ num_hours \in 1..MaxHours
    /\ all_groups \in GroupLists
    /\ all_subjects \in SubjectLists({DefaultWeeklyHours}, {DefaultMaxHoursPerDay})
    /\ all_teachers \in TeacherLists(all_subjects, {DefaultMaxHoursWeek})
    /\ assignments = VariableIndex(num_days, num_hours, all_groups,
                                   all_subjects, all_teachers)
    /\ Cardinality(assignments) <= MaxVars
    /\ val \in Valuations
    /\ status = "UNKNOWN"
    /\ grid = <<>>
    /\ message = ""
    /\ y_vars = <<>>
    /\ starts = <<>>
    /\ pc = "valuation"

\* Lines 59-63 alone.
add_teacher_exclusivity ==
    /\ pc = "valuation"
    /\ pc' = IF TeacherExclusivity(val) THEN "exclusive" ELSE "not_exclusive"
    /\ UNCHANGED <<num_days, num_hours, all_groups, all_subjects, all_teachers,
                   assignments, val, status, grid, message, y_vars, starts>>

\* Lines 82-86 alone.
add_group_slot ==
    /\ pc = "valuation"
    /\ pc' = IF GroupSlot(val) THEN "one_per_slot" ELSE "not_one_per_slot"
    /\ UNCHANGED <<num_days, num_hours, all_groups, all_subjects, all_teachers,
                   assignments, val, status, grid, message, y_vars, starts>>

NextFam == add_teacher_exclusivity \/ add_group_slot

SpecFam == InitFam /\ [][NextFam]_vars

-----------------------------------------------------------------------------
(* Properties *)

Solved == pc \in {"solved", "printed"} /\ Accepted

\* The variable of key has value 1 in the solution.
On(key) == key \in assignments /\ val[key] = 1

\* The (teacher, day, hour) triples at which group g has subject s.
SlotsOf(g, s) ==
    { x \in Range(all_teachers) \X Days \X Hours :
          On(<<g, s.id, x[1].id, x[2], x[3]>>) }

\* Some teacher teaches subject s to group g at day d, hour h.
Occupied(g, s, d, h) ==
    \E t \in Range(all_teachers) : On(<<g, s.id, t.id, d, h>>)

\* The group/subject pairs the model covers.
Pairs ==
    { p \in Range(all_groups) \X Range(all_subjects) : p[2].course = Course(p[1]) }

\* C1: in every accepted solution each group has each subject of its course
\* for exactly weekly_hours slots, counted over teachers, days and hours.
C1_WeeklyHoursExact ==
    Solved => \A p \in Pairs :
                  Cardinality(SlotsOf(p[1], p[2])) = p[2].weekly_hours

\* A solution in which a pair needing two hours has them, while more
\* variables than that exist for it.
C1_Witness ==
    /\ Solved
    /\ \E p \in Pairs :
           /\ p[2].weekly_hours = 2
           /\ Cardinality(SlotsOf(p[1], p[2])) = 2
           /\ Cardinality({k \in assignments :
                               k[1] = p[1] /\ k[2] = p[2].id}) > 2

\* C2: in every accepted solution the hours of a subject in a group on one
\* day have no gap: between two occupied hours every hour is occupied.
C2_HoursContiguous ==
    Solved => \A p \in Pairs : \A d \in Days :
                  \A h1 \in Hours : \A h2 \in Hours :
                      (h1 < h2 /\ Occupied(p[1], p[2], d, h1)
                               /\ Occupied(p[1], p[2], d, h2))
                          => \A h \in h1..h2 : Occupied(p[1], p[2], d, h)

\* A solution with a two-hour block on a day of three hours, where a gap
\* was possible.
C2_Witness ==
    /\ Solved
    /\ num_hours >= 3
    /\ \E p \in Pairs : \E d \in Days : \E h \in Hours :
           /\ h + 1 \in Hours
           /\ Occupied(p[1], p[2], d, h)
           /\ Occupied(p[1], p[2], d, h + 1)
           /\ Cardinality({x \in Hours : Occupied(p[1], p[2], d, x)}) = 2

\* C3: in every accepted solution a teacher has at most one variable equal
\* to 1 per day and hour, over all groups and subjects.
C3_TeacherOneClassPerSlot ==
    Solved => \A t \in Range(all_teachers) : \A d \in Days : \A h \in Hours :
                  Cardinality({k \in assignments :
                                   /\ k[3] = t.id /\ k[4] = d /\ k[5] = h
                                   /\ On(k)}) <= 1

\* A solution in which one teacher teaches two groups, at different slots.
C3_Witness ==
    /\ Solved
    /\ \E t \in Range(all_teachers) :
           \E k1 \in assignments : \E k2 \in assignments :
               /\ k1[3] = t.id /\ k2[3] = t.id
               /\ k1[1] # k2[1]
               /\ On(k1) /\ On(k2)

\* Two groups need subject s, teacher t is the only one certified for it,
\* one group's hours fit t's weekly cap and the two together exceed it.
SharedTeacherOverload ==
    \E s \in Range(all_subjects) : \E t \in Range(all_teachers) :
        /\ s \in t.subjects
        /\ \A u \in Range(all_teachers) : s \in u.subjects => u = t
        /\ \E g1 \in Range(all_groups) : \E g2 \in Range(all_groups) :
               /\ g1 # g2
               /\ Course(g1) = s.course
               /\ Course(g2) = s.course
        /\ s.weekly_hours <= t.max_hours_week
        /\ 2 * s.weekly_hours > t.max_hours_week

\* C4: in every accepted solution a teacher's variables equal to 1, over all
\* groups, subjects, days and hours, number at most max_hours_week; and an
\* instance where two groups overload their only teacher is INFEASIBLE.
C4_TeacherWeeklyCap ==
    /\ Solved => \A t \in Range(all_teachers) :
                     Cardinality({k \in assignments : k[3] = t.id /\ On(k)})
                         <= t.max_hours_week
    /\ (pc \in {"solved", "printed"} /\ SharedTeacherOverload)
           => status = "INFEASIBLE"

\* An overloaded shared teacher reported INFEASIBLE, where a valuation
\* satisfies every other constraint family: the cap alone decides.
C4_Witness ==
    /\ pc = "solved"
    /\ SharedTeacherOverload
    /\ status = "INFEASIBLE"
    /\ \E v \in Valuations :
           /\ WeeklyQuota(v) /\ TeacherExclusivity(v) /\ DailyCap(v)
           /\ GroupSlot(v) /\ Contiguity(v)
           /\ ~ TeacherWorkload(v)

\* C5: in every accepted solution a group has at most one variable equal to
\* 1 per day and hour, over all subjects and teachers.
C5_GroupOnePerSlot ==
    Solved => \A g \in Range(all_groups) : \A d \in Days : \A h \in Hours :
                  Cardinality({k \in assignments :
                                   /\ k[1] = g /\ k[4] = d /\ k[5] = h
                                   /\ On(k)}) <= 1

\* A solution in which one group has two subjects, at different slots.
C5_Witness ==
    /\ Solved
    /\ \E k1 \in assignments : \E k2 \in assignments :
           /\ k1[1] = k2[1]
           /\ k1[2] # k2[2]
           /\ On(k1) /\ On(k2)

\* The variables of group g at day d, hour h with value 1.
OnAt(g, d, h) ==
    {k \in assignments : k[1] = g /\ k[4] = d /\ k[5] = h /\ On(k)}

\* The text "<subject name> (<teacher name>)" of the variable of key k.
Shown(k) ==
    LET s == CHOOSE s \in Range(all_subjects) : s.id = k[2]
        t == CHOOSE t \in Range(all_teachers) : t.id = k[3]
    IN  <<s.name, " (", t.name, ")">>

C7_TooFewVariablesInfeasible ==
    (pc \in {"solved", "printed"} /\
     \E p \in Pairs :
         Cardinality({k \in assignments : k[1] = p[1] /\ k[2] = p[2].id})
             < p[2].weekly_hours)
        => /\ status = "INFEASIBLE"
           /\ val = <<>>
           /\ pc = "printed" => grid = <<>>

\* A subject of the group's course that needs hours and has no certified
\* teacher, hence no variable, while another pair has variables.
C7_Witness ==
    /\ pc = "printed"
    /\ status = "INFEASIBLE"
    /\ assignments # {}
    /\ \E p \in Pairs :
           /\ p[2].weekly_hours > 0
           /\ \A t \in Range(all_teachers) : p[2] \notin t.subjects
           /\ {k \in assignments : k[1] = p[1] /\ k[2] = p[2].id} = {}

\* The occupied hours of y form at most one run of consecutive hours.
SingleRun(nh, y) ==
    \A h1 \in 0..(nh - 1) : \A h2 \in 0..(nh - 1) :
        (h1 < h2 /\ y[h1] = 1 /\ y[h2] = 1) => \A h \in h1..h2 : y[h] = 1

\* C8: for every 0/1 vector y the start links have a solution, every
\* solution has start[h] = 1 exactly when y[h] = 1 and (h = 0 or
\* y[h-1] = 0), and sum(start) <= 1 keeps y exactly when its occupied hours
\* form at most one run.
C8_BlockStartExact ==
    /\ pc = "y" => \E s \in [Hours -> {0, 1}] : StartLinks(num_hours, y_vars, s)
    /\ pc \in {"starts", "kept", "rejected"} =>
           \A h \in Hours :
               (starts[h] = 1) <=> (y_vars[h] = 1 /\ (h = 0 \/ y_vars[h - 1] = 0))
    /\ pc = "kept" => SingleRun(num_hours, y_vars)
    /\ pc = "rejected" => ~ SingleRun(num_hours, y_vars)

\* A vector with a gap that was rejected (two block starts).
C8_Witness ==
    /\ pc = "rejected"
    /\ \E h \in Hours :
           /\ h >= 2
           /\ y_vars[h] = 1 /\ y_vars[h - 1] = 0 /\ y_vars[h - 2] = 1
           /\ starts[h] = 1 /\ starts[h - 1] = 0

\* C9: in every accepted solution the hours of a subject in a group on one
\* day, counted over all certified teachers, number at most
\* max_hours_per_day.
C9_DailyCapOverTeachers ==
    Solved => \A p \in Pairs : \A d \in Days :
                  Cardinality({x \in SlotsOf(p[1], p[2]) : x[2] = d})
                      <= p[2].max_hours_per_day

\* The teachers whose variable of (g, sid, d, h) is 1.
TeachersAt(g, sid, d, h) ==
    {k \in assignments :
         k[1] = g /\ k[2] = sid /\ k[4] = d /\ k[5] = h /\ val[k] = 1}

\* At most one teacher's variable is 1 for each (group, subject, day, hour),
\* so the OR of those variables equals their sum.
OneTeacherPerSubjectSlot ==
    \A g \in Range(all_groups) : \A s \in Range(all_subjects) :
        \A d \in Days : \A h \in Hours :
            /\ Cardinality(TeachersAt(g, s.id, d, h)) <= 1
            /\ (IF TeachersAt(g, s.id, d, h) # {} THEN 1 ELSE 0)
                   = Cardinality(TeachersAt(g, s.id, d, h))

\* C10 as stated: every valuation satisfying teacher exclusivity has at most
\* one teacher per (group, subject, day, hour).
C10_TeacherExclusivityImplies ==
    pc = "exclusive" => OneTeacherPerSubjectSlot

\* C10 amended: every valuation satisfying the one-subject-per-slot
\* constraint (at most one variable equal to 1 per group, day and hour) has
\* at most one teacher per (group, subject, day, hour), so the OR of those
\* variables over teachers equals their sum.
C10_GroupSlotImplies ==
    pc = "one_per_slot" => OneTeacherPerSubjectSlot

\* A valuation satisfying the group constraint where two teachers have a
\* variable of the same (group, subject, day, hour) and one of them is 1.
C10_Witness ==
    /\ pc = "one_per_slot"
    /\ \E k1 \in assignments : \E k2 \in assignments :
           /\ k1[1] = k2[1] /\ k1[2] = k2[2] /\ k1[4] = k2[4] /\ k1[5] = k2[5]
           /\ k1[3] # k2[3]
           /\ val[k1] = 1

====
